---- MODULE Spec2Model ----
(***************************************************************************)
(* Model of src/driver.py: the four fetch drivers (RequestsDriver,         *)
(* SeleniumDriver, PuppeteerDriver, LeanAndMeanDriver), the DriverRepo     *)
(* registry built by init_drivers, and the request/response exchange of    *)
(* LeanAndMeanDriver.get_impl with the fetch service on 127.0.0.1:3080.    *)
(***************************************************************************)
EXTENDS Integers, Sequences, FiniteSets, TLC

VARIABLES
    env,        \* the files of the host: chromedriver binaries, scrape.js
    config,     \* config.refresh_interval handed to init_drivers
    startup,    \* "pending", "ok" (init_drivers returned), "failed" (it raised)
    repo,       \* the DriverRepo: driver name -> the driver's fields
    calls,      \* caller thread -> its current get call
    files,      \* artifact files written so far: resolved path -> content
    gets        \* number of get calls started

vars == <<env, config, startup, repo, calls, files, gets>>

-----------------------------------------------------------------------------
(* Bounds of the model                                                     *)

MaxCallers == 2
MaxGets == 2

Callers == 1..MaxCallers

(* Program constants                                                       *)

MinTimeout == 15
RequestId == 1337

RefreshIntervals == {5, 30}

DriverNames == {"requests", "selenium", "puppeteer", "lean_and_mean"}

-----------------------------------------------------------------------------
(* Targets: a URL and the nickname used to name artifacts.  A nickname is  *)
(* a string; it is held as its components between path separators.        *)

Cwd == <<"app">>

Targets ==
    { [url |-> "u1", nickname |-> <<"a">>],
      [url |-> "u2", nickname |-> <<"..", "x">>],
      [url |-> "u3", nickname |-> <<"..", "data", "a">>] }

NoTarget == [url |-> "", nickname |-> <<>>]

\* what the site serves for a URL
PageOf(url) ==
    CASE url = "u1" -> "page1"
      [] url = "u2" -> "page2"
      [] url = "u3" -> "page3"
      [] OTHER -> ""

-----------------------------------------------------------------------------
(* Paths.  A path is its sequence of components below the root plus the    *)
(* extension appended to the last component.                               *)

\* pathlib.Path('data').resolve()
DataDirPath == Cwd \o <<"data">>

\* self.data_dir / f'{url.nickname}.<ext>'
ArtifactPath(data_dir, nickname, ext) ==
    [parts |-> data_dir \o nickname, ext |-> ext]

RECURSIVE ResolveParts(_, _)
ResolveParts(done, rest) ==
    IF rest = <<>> THEN done
    ELSE IF Head(rest) = ".."
         THEN ResolveParts(IF done = <<>> THEN <<>> ELSE SubSeq(done, 1, Len(done) - 1),
                           Tail(rest))
         ELSE ResolveParts(Append(done, Head(rest)), Tail(rest))

\* the file the operating system opens for a path
Resolve(path) == [parts |-> ResolveParts(<<>>, path.parts), ext |-> path.ext]

ParentOf(path) ==
    IF path.parts = <<>> THEN <<>> ELSE SubSeq(path.parts, 1, Len(path.parts) - 1)

WriteFile(fs, path, content) ==
    [p \in DOMAIN fs \cup {Resolve(path)} |->
        IF p = Resolve(path) THEN content ELSE fs[p]]

NoFiles == [p \in {} |-> ""]

-----------------------------------------------------------------------------
(* Wire format of worker_pb2.Request / Response: a message is a sequence   *)
(* of tagged fields; a field left at its default value is not emitted; on  *)
(* parsing the last occurrence of a field wins, unknown fields are         *)
(* skipped, and field number 0 is not a legal tag.                         *)

VarintField(num, n) == [num |-> num, wt |-> "varint", int |-> n, str |-> ""]
LenField(num, s) == [num |-> num, wt |-> "len", int |-> 0, str |-> s]

EmitVarint(num, n) == IF n = 0 THEN <<>> ELSE <<VarintField(num, n)>>
EmitLen(num, s) == IF s = "" THEN <<>> ELSE <<LenField(num, s)>>

\* Request.SerializeToString
SerializeRequest(r) ==
    EmitVarint(1, r.id) \o EmitLen(2, r.url) \o EmitVarint(3, r.timeout)

\* Response.SerializeToString, as the fetch service applies it
SerializeResponse(r) ==
    EmitVarint(1, r.id) \o EmitVarint(2, r.status_code) \o EmitLen(3, r.data)

Malformed(bytes) == \E i \in 1..Len(bytes) : bytes[i].num = 0

RECURSIVE LastVarint(_, _, _)
LastVarint(bytes, num, default) ==
    IF bytes = <<>> THEN default
    ELSE LET f == bytes[Len(bytes)] IN
         IF f.num = num /\ f.wt = "varint" THEN f.int
         ELSE LastVarint(SubSeq(bytes, 1, Len(bytes) - 1), num, default)

RECURSIVE LastLen(_, _, _)
LastLen(bytes, num, default) ==
    IF bytes = <<>> THEN default
    ELSE LET f == bytes[Len(bytes)] IN
         IF f.num = num /\ f.wt = "len" THEN f.str
         ELSE LastLen(SubSeq(bytes, 1, Len(bytes) - 1), num, default)

\* Request.ParseFromString
ParseRequest(bytes) ==
    [id |-> LastVarint(bytes, 1, 0),
     url |-> LastLen(bytes, 2, ""),
     timeout |-> LastVarint(bytes, 3, 0)]

\* Response.ParseFromString, for bytes that are not Malformed
ParseResponse(bytes) ==
    [id |-> LastVarint(bytes, 1, 0),
     status_code |-> LastVarint(bytes, 2, 0),
     data |-> LastLen(bytes, 3, "")]

NoResponse == [id |-> 0, status_code |-> 0, data |-> ""]

\* the responses the fetch service composes
ServiceResponses ==
    { [id |-> RequestId, status_code |-> 200, data |-> "html"],
      [id |-> 7, status_code |-> 404, data |-> "html"],
      NoResponse }

UnknownField == VarintField(9, 1)
IllegalField == VarintField(0, 1)

\* the byte strings the client's read-to-EOF can yield
ServiceReplies ==
    { SerializeResponse(r) : r \in ServiceResponses }
        \cup { <<IllegalField>>,
               <<VarintField(2, 500), UnknownField, VarintField(2, 200), LenField(3, "html")>> }

-----------------------------------------------------------------------------
(* HttpGetResponse and the outcome of a get call                           *)

NoKwargs == [k \in {} |-> 0]
StatusKwarg(n) == [k \in {"status_code"} |-> n]

\* HttpGetResponse.__init__: status_code = kwargs.get('status_code', None);
\* None is has_status = FALSE
HttpGetResponse(text, url, kwargs) ==
    [kind |-> "response", text |-> text, url |-> url,
     has_status |-> "status_code" \in DOMAIN kwargs,
     status_code |-> IF "status_code" \in DOMAIN kwargs THEN kwargs["status_code"] ELSE 0,
     err |-> ""]

Pending ==
    [kind |-> "pending", text |-> "", url |-> "", has_status |-> FALSE,
     status_code |-> 0, err |-> ""]

\* a get that falls off the end of the function returns None
ReturnedNone == [Pending EXCEPT !.kind = "none"]

\* a get that an exception leaves
Raised(err) == [Pending EXCEPT !.kind = "error", !.err = err]

IdleCall ==
    [pc |-> "idle", driver |-> "", target |-> NoTarget, result |-> Pending,
     events |-> <<>>, conn |-> "none", attempts |-> 0, sent |-> <<>>,
     reply |-> <<>>, response |-> NoResponse, returncode |-> 0]

StartCall(driver, target, pc) ==
    [IdleCall EXCEPT !.pc = pc, !.driver = driver, !.target = target]

-----------------------------------------------------------------------------
(* Construction: init_drivers, DriverRepo.__init__, the drivers' __init__  *)

\* Driver.__init__
Driver(data_dir, timeout) == [data_dir |-> data_dir, timeout |-> timeout]

Unbuilt == Driver(<<>>, 0)
NoRepo == [d \in DriverNames |-> Unbuilt]

\* SeleniumDriver.__init__: the first chromedriver found on the system is
\* copied to selenium/chromedriver
SeleniumInitCopy(e) ==
    [e EXCEPT !.selenium_chromedriver = e.selenium_chromedriver \/ e.system_chromedriver]

\* SeleniumDriver.__init__: raise unless selenium/chromedriver is a file
SeleniumInitRaises(e) == ~SeleniumInitCopy(e).selenium_chromedriver

C7_PuppeteerInitUnchecked(e) == FALSE

\* PuppeteerDriver.__init__: raise unless scrape.js exists
PuppeteerInitRaises(e) == ~e.scrape_js

\* DriverRepo.__init__: the four drivers share data_dir and timeout
DriverRepo(timeout) == [d \in DriverNames |-> Driver(DataDirPath, timeout)]

C6_TimeoutWithoutFloor(refresh_interval) == refresh_interval

\* init_drivers: int(max(config.refresh_interval, 15))
InitTimeout(refresh_interval) ==
    IF refresh_interval > MinTimeout THEN refresh_interval ELSE MinTimeout

init_drivers ==
    /\ startup = "pending"
    /\ env' = SeleniumInitCopy(env)
    /\ IF SeleniumInitRaises(env) \/ PuppeteerInitRaises(SeleniumInitCopy(env))
       THEN /\ startup' = "failed"
            /\ repo' = repo
       ELSE /\ startup' = "ok"
            /\ repo' = DriverRepo(InitTimeout(config))
    /\ UNCHANGED <<config, calls, files, gets>>

-----------------------------------------------------------------------------
(* The callers: a thread holding the registry starts a get when it has     *)
(* none running.                                                           *)

CanGet(c) ==
    /\ startup = "ok"
    /\ calls[c].pc \in {"idle", "done"}
    /\ gets < MaxGets

Finish(call, result) == [call EXCEPT !.pc = "done", !.result = result]

\* RequestsDriver.get
RequestsGet(c, t) ==
    /\ CanGet(c)
    /\ \E outcome \in {"ok", "not_ok", "redirected", "raise"} :
         calls' = [calls EXCEPT ![c] =
            Finish(StartCall("requests", t, "done"),
              CASE outcome = "ok" ->
                     HttpGetResponse(PageOf(t.url), t.url, StatusKwarg(200))
                [] outcome = "not_ok" ->
                     HttpGetResponse("", t.url, StatusKwarg(404))
                [] outcome = "redirected" ->
                     HttpGetResponse(PageOf(t.url), "redirected", StatusKwarg(200))
                [] OTHER -> Raised("RequestException"))]
    /\ gets' = gets + 1
    /\ UNCHANGED <<env, config, startup, repo, files>>

\* SeleniumDriver.get
SeleniumGet(c, t) ==
    /\ CanGet(c)
    /\ \E browser_ok \in BOOLEAN, screenshot_ok \in BOOLEAN :
         IF ~env.selenium_chromedriver \/ ~browser_ok
         THEN /\ calls' = [calls EXCEPT ![c] =
                    Finish(StartCall("selenium", t, "done"), Raised("WebDriverException"))]
              /\ files' = files
         ELSE /\ calls' = [calls EXCEPT ![c] =
                    Finish(StartCall("selenium", t, "done"),
                           HttpGetResponse(PageOf(t.url), t.url, NoKwargs))]
              /\ files' = IF screenshot_ok
                          THEN WriteFile(files,
                                 ArtifactPath(repo["selenium"].data_dir, t.nickname, "png"),
                                 PageOf(t.url))
                          ELSE files
    /\ gets' = gets + 1
    /\ UNCHANGED <<env, config, startup, repo>>

\* PuppeteerDriver.get up to the return of subprocess.run
PuppeteerRun(c, t) ==
    /\ CanGet(c)
    /\ \E outcome \in {"zero", "nonzero", "raise"} :
         LET html_file == ArtifactPath(repo["puppeteer"].data_dir, t.nickname, "html")
             png_file == ArtifactPath(repo["puppeteer"].data_dir, t.nickname, "png")
             call == StartCall("puppeteer", t, "ran")
         IN  CASE outcome = "raise" ->
                    /\ calls' = [calls EXCEPT ![c] = Finish(call, Raised("OSError"))]
                    /\ files' = files
               [] outcome = "zero" /\ env.scrape_js ->
                    /\ calls' = [calls EXCEPT ![c] = [call EXCEPT !.returncode = 0]]
                    /\ files' = WriteFile(WriteFile(files, html_file, PageOf(t.url)),
                                          png_file, PageOf(t.url))
               [] OTHER ->
                    /\ calls' = [calls EXCEPT ![c] = [call EXCEPT !.returncode = 1]]
                    /\ files' = files
    /\ gets' = gets + 1
    /\ UNCHANGED <<env, config, startup, repo>>

\* PuppeteerDriver.get after subprocess.run
PuppeteerFinish(c) ==
    /\ calls[c].pc = "ran"
    /\ LET call == calls[c]
           html_file == ArtifactPath(repo["puppeteer"].data_dir, call.target.nickname, "html")
       IN  calls' = [calls EXCEPT ![c] =
             IF call.returncode # 0
             THEN Finish(call, ReturnedNone)
             ELSE IF Resolve(html_file) \in DOMAIN files
                  THEN Finish(call, HttpGetResponse(files[Resolve(html_file)],
                                                    call.target.url, NoKwargs))
                  ELSE Finish(call, Raised("FileNotFoundError"))]
    /\ UNCHANGED <<env, config, startup, repo, files, gets>>

-----------------------------------------------------------------------------
(* LeanAndMeanDriver.get: asyncio.run(get_impl(url)).  get_impl is one     *)
(* action per await: the await's outcome and the code up to the next one.  *)

ConnectionOpen == {"open", "half_closed"}

\* the request get_impl builds
Request(url, timeout) == [id |-> RequestId, url |-> url, timeout |-> timeout]

\* get up to await asyncio.open_connection('127.0.0.1', 3080)
LeanAndMeanGet(c, t) ==
    /\ CanGet(c)
    /\ calls' = [calls EXCEPT ![c] =
          [StartCall("lean_and_mean", t, "connecting") EXCEPT !.attempts = 1]]
    /\ gets' = gets + 1
    /\ UNCHANGED <<env, config, startup, repo, files>>

C4_SendEofBeforeRequest(call, timeout) ==
    [call EXCEPT !.pc = "draining",
                 !.conn = "half_closed",
                 !.events = <<"open_connection", "write_eof", "write">>,
                 !.sent = <<SerializeRequest(Request(call.target.url, timeout))>>]

\* open_connection returned: build the request, writer.write, writer.write_eof
GetImplSend(call, timeout) ==
    [call EXCEPT !.pc = "draining",
                 !.conn = "half_closed",
                 !.events = <<"open_connection", "write", "write_eof">>,
                 !.sent = <<SerializeRequest(Request(call.target.url, timeout))>>]

C3_RetryOnRefused(call) ==
    IF call.attempts < 2
    THEN [call EXCEPT !.attempts = @ + 1]
    ELSE Finish(call, Raised("ConnectionRefusedError"))

\* open_connection raised: the exception leaves get_impl and asyncio.run
GetImplRefused(call) == Finish(call, Raised("ConnectionRefusedError"))

LmConnected(c) ==
    /\ calls[c].pc = "connecting"
    /\ calls' = [calls EXCEPT ![c] = GetImplSend(@, repo["lean_and_mean"].timeout)]
    /\ UNCHANGED <<env, config, startup, repo, files, gets>>

LmConnectRefused(c) ==
    /\ calls[c].pc = "connecting"
    /\ calls' = [calls EXCEPT ![c] = GetImplRefused(@)]
    /\ UNCHANGED <<env, config, startup, repo, files, gets>>

\* await writer.drain() returned
LmDrained(c) ==
    /\ calls[c].pc = "draining"
    /\ calls' = [calls EXCEPT ![c].pc = "reading"]
    /\ UNCHANGED <<env, config, startup, repo, files, gets>>

\* await writer.drain() raised: the peer reset the connection
LmDrainFailed(c) ==
    /\ calls[c].pc = "draining"
    /\ calls' = [calls EXCEPT ![c] = Finish(@, Raised("ConnectionResetError"))]
    /\ UNCHANGED <<env, config, startup, repo, files, gets>>

\* await reader.read() returned bytes: ParseFromString, writer.close()
GetImplParse(call, bytes) ==
    IF Malformed(bytes)
    THEN [Finish(call, Raised("DecodeError")) EXCEPT
             !.reply = bytes,
             !.events = call.events \o <<"read", "ParseFromString">>]
    ELSE [call EXCEPT
             !.pc = "closing",
             !.reply = bytes,
             !.response = ParseResponse(bytes),
             !.conn = "closed",
             !.events = call.events \o <<"read", "ParseFromString", "close">>]

LmReadDone(c, bytes) ==
    /\ calls[c].pc = "reading"
    /\ calls' = [calls EXCEPT ![c] = GetImplParse(@, bytes)]
    /\ UNCHANGED <<env, config, startup, repo, files, gets>>

\* await reader.read() raised: the peer reset the connection
LmReadFailed(c) ==
    /\ calls[c].pc = "reading"
    /\ calls' = [calls EXCEPT ![c] = Finish(@, Raised("ConnectionResetError"))]
    /\ UNCHANGED <<env, config, startup, repo, files, gets>>

C5_ReturnChecksId(call) ==
    IF call.response.id = RequestId
    THEN Finish(call, HttpGetResponse(call.response.data, call.target.url,
                                      StatusKwarg(call.response.status_code)))
    ELSE Finish(call, Raised("ProtocolError"))

\* await writer.wait_closed() returned: return HttpGetResponse(...)
GetImplReturn(call) ==
    Finish(call, HttpGetResponse(call.response.data, call.target.url,
                                 StatusKwarg(call.response.status_code)))

LmWaitClosed(c) ==
    /\ calls[c].pc = "closing"
    /\ calls' = [calls EXCEPT ![c] = GetImplReturn(@)]
    /\ UNCHANGED <<env, config, startup, repo, files, gets>>

-----------------------------------------------------------------------------

Init ==
    /\ env \in [system_chromedriver : BOOLEAN,
                selenium_chromedriver : BOOLEAN,
                scrape_js : BOOLEAN]
    /\ config \in RefreshIntervals
    /\ startup = "pending"
    /\ repo = NoRepo
    /\ calls = [c \in Callers |-> IdleCall]
    /\ files = NoFiles
    /\ gets = 0

Next ==
    \/ init_drivers
    \/ \E c \in Callers, t \in Targets : RequestsGet(c, t)
    \/ \E c \in Callers, t \in Targets : SeleniumGet(c, t)
    \/ \E c \in Callers, t \in Targets : PuppeteerRun(c, t)
    \/ \E c \in Callers : PuppeteerFinish(c)
    \/ \E c \in Callers, t \in Targets : LeanAndMeanGet(c, t)
    \/ \E c \in Callers : LmConnected(c)
    \/ \E c \in Callers : LmConnectRefused(c)
    \/ \E c \in Callers : LmDrained(c)
    \/ \E c \in Callers : LmDrainFailed(c)
    \/ \E c \in Callers, bytes \in ServiceReplies : LmReadDone(c, bytes)
    \/ \E c \in Callers : LmReadFailed(c)
    \/ \E c \in Callers : LmWaitClosed(c)

Spec == Init /\ [][Next]_vars

-----------------------------------------------------------------------------
(* Properties                                                              *)

Lean(c) == calls[c].driver = "lean_and_mean"
Done(c) == calls[c].pc = "done"

IsPrefix(s, t) == Len(s) <= Len(t) /\ s = SubSeq(t, 1, Len(s))

ProtocolOrder ==
    <<"open_connection", "write", "write_eof", "read", "ParseFromString", "close">>

ConnectionFailed == {"ConnectionRefusedError", "ConnectionResetError"}
ProtocolError == {"DecodeError", "ProtocolError"}

\* C1: a get call that terminates returns an HttpGetResponse or fails with an
\* error, whatever the driver; it never returns None.
C1_GetNeverReturnsNone ==
    \A c \in Callers : Done(c) => calls[c].result.kind \in {"response", "error"}

\* C2: when the read-to-EOF yields zero bytes, LeanAndMeanDriver.get fails
\* with a ProtocolError and returns no HttpGetResponse.
C2_EmptyReadIsProtocolError ==
    \A c \in Callers :
        (Lean(c) /\ Done(c) /\ Len(calls[c].events) > 3 /\ calls[c].reply = <<>>)
            => /\ calls[c].result.kind = "error"
               /\ calls[c].result.err \in ProtocolError

\* C3: when the connection cannot be established, LeanAndMeanDriver.get fails
\* with a ConnectionFailed error, produces no response, writes no request
\* bytes and has made exactly one connection attempt.
C3_RefusedConnectionSurfaces ==
    \A c \in Callers :
        Lean(c) =>
            /\ calls[c].attempts = 1
            /\ (Done(c) /\ calls[c].events = <<>>) =>
                  /\ calls[c].result.kind = "error"
                  /\ calls[c].result.err \in ConnectionFailed
                  /\ calls[c].sent = <<>>
                  /\ calls[c].conn = "none"

C3_Witness ==
    \E c \in Callers :
        /\ Lean(c) /\ Done(c) /\ calls[c].events = <<>>
        /\ calls[c].result = Raised("ConnectionRefusedError")

\* C4: within one LeanAndMeanDriver.get the events on the connection are, in
\* this order, open, one write of the serialized request (id, url, timeout),
\* half-close, read to EOF, deserialize, close: no read before the half-close,
\* no write after it, no close before the read has completed.
C4_ProtocolEventsInOrder ==
    \A c \in Callers :
        Lean(c) =>
            /\ IsPrefix(calls[c].events, ProtocolOrder)
            /\ calls[c].events # <<>> =>
                  /\ Len(calls[c].sent) = 1
                  /\ ParseRequest(calls[c].sent[1]) =
                        [id |-> RequestId, url |-> calls[c].target.url,
                         timeout |-> repo["lean_and_mean"].timeout]
            /\ (calls[c].conn = "closed") <=> (calls[c].events = ProtocolOrder)

C4_Witness ==
    \E c \in Callers :
        Lean(c) /\ Done(c) /\ calls[c].events = ProtocolOrder /\ calls[c].conn = "closed"

\* C5: for every well-formed response of the service, whatever its status code
\* and its id, LeanAndMeanDriver.get returns a result whose body is the
\* response's data, whose status_code is the response's status_code and whose
\* url is the requested target.
C5_WellFormedResponseIsReturned ==
    \A c \in Callers :
        (Lean(c) /\ Done(c) /\ Len(calls[c].events) > 3 /\ ~Malformed(calls[c].reply)) =>
            /\ calls[c].result.kind = "response"
            /\ calls[c].result.url = calls[c].target.url
            /\ calls[c].result.has_status
            /\ \A r \in ServiceResponses :
                  calls[c].reply = SerializeResponse(r) =>
                     /\ calls[c].result.text = r.data
                     /\ calls[c].result.status_code = r.status_code

C5_Witness ==
    \E c \in Callers :
        /\ Lean(c) /\ Done(c)
        /\ calls[c].reply = SerializeResponse([id |-> 7, status_code |-> 404, data |-> "html"])
        /\ calls[c].result.kind = "response"
        /\ calls[c].result.status_code = 404

C7_MissingDependencyFailsStartup ==
    /\ startup = "ok" => env.selenium_chromedriver /\ env.scrape_js
    /\ startup # "ok" => repo = NoRepo /\ \A c \in Callers : calls[c] = IdleCall
    /\ startup = "failed" => ~env.selenium_chromedriver \/ ~env.scrape_js

C7_Witness ==
    /\ startup = "failed"
    /\ env.selenium_chromedriver
    /\ ~env.scrape_js
    /\ repo = NoRepo

\* C8: two concurrent get calls with distinct nicknames on one driver each
\* return the result they would return alone, and a get modifies no field of
\* the driver or the registry.
C8_ConcurrentGetsIndependent ==
    /\ startup = "ok" => repo = DriverRepo(InitTimeout(config))
    /\ \A c, d \in Callers :
          (/\ c # d
           /\ calls[c].driver = calls[d].driver
           /\ calls[c].target.nickname # calls[d].target.nickname
           /\ Done(c)
           /\ calls[c].result.kind = "response") =>
              /\ calls[c].driver = "puppeteer" =>
                    calls[c].result.text = PageOf(calls[c].target.url)
              /\ calls[c].driver = "lean_and_mean" =>
                    calls[c].result.text = ParseResponse(calls[c].reply).data

\* C9: a nickname with path-unsafe characters is rejected or sanitized, so
\* every artifact file written lies directly inside the working directory.
C9_ArtifactsInsideDataDir ==
    \A p \in DOMAIN files : ParentOf(p) = DataDirPath

\* C10: every connection get_impl opens is closed by the time the get call
\* returns or fails.
C10_ConnectionClosedOnEveryPath ==
    \A c \in Callers : (Lean(c) /\ Done(c)) => calls[c].conn \notin ConnectionOpen

====
